---- MODULE Spec2Model ----
(***************************************************************************)
(* A model of the latex_rs front end: lexer -> parser -> macro expander -> *)
(* layout engine.  A string is the sequence of its characters, a character *)
(* is its Unicode code point (char as u32): 97 is 'a', 233 is U+00E9.      *)
(* Widths are integers (the f64 arithmetic of layout.rs is exact on them). *)
(***************************************************************************)
EXTENDS Integers, Sequences, FiniteSets, TLC

VARIABLES pc, tree, expanded, reexpanded, src, toks, result,
          line_width, line_height, char_width, space_width,
          hboxes, ix, curr, w, lines, pages

exVars == <<tree, expanded, reexpanded>>

psVars == <<src, toks, result>>

params == <<line_width, line_height, char_width, space_width>>

loVars == <<hboxes, ix, curr, w, lines, pages>>

vars == <<pc, exVars, psVars, params, loVars>>

(* ------------------------------ bounds --------------------------------- *)
MaxNodes == 4

MaxSrcLen == 6

MaxLayoutNodes == 3

MaxLineWidth == 4

MaxCharWidth == 2

MaxSpaceWidth == 1

(* ------------------------------ ast.rs --------------------------------- *)
TextStyle == {"Normal", "Bold", "Italic"}

Text(s) == [kind |-> "Text", s |-> s]

StyledText(s, style) == [kind |-> "StyledText", s |-> s, style |-> style]

Macro(name, args) == [kind |-> "Macro", name |-> name, args |-> args]

Seq_(children) == [kind |-> "Seq", children |-> children]

(* ----------------------------- lexer.rs -------------------------------- *)
LBrace == [type |-> "LBrace"]

RBrace == [type |-> "RBrace"]

Command(name) == [type |-> "Command", name |-> name]

TokText(s) == [type |-> "Text", s |-> s]

Error == [type |-> "Error"]

\* [a-zA-Z]
Letters == (65..90) \cup (97..122)

\* \s and char::is_whitespace: the 25 characters with the Unicode property
\* White_Space, U+0009..U+000D, U+0020, U+0085, U+00A0, U+1680,
\* U+2000..U+200A, U+2028, U+2029, U+202F, U+205F, U+3000
Whitespace ==
    (9..13) \cup {32, 133, 160, 5760} \cup (8192..8202)
    \cup {8232, 8233, 8239, 8287, 12288}

\* char::len_utf8: the bytes of a character in a str
len_utf8(c) ==
    IF c < 128 THEN 1 ELSE IF c < 2048 THEN 2 ELSE IF c < 65536 THEN 3 ELSE 4

\* str::len: the length in bytes
RECURSIVE ByteLen(_)
ByteLen(str) ==
    IF str = <<>> THEN 0 ELSE len_utf8(str[1]) + ByteLen(Tail(str))

\* the byte offset of the character at index i (1-based)
Offset(input, i) == ByteLen(SubSeq(input, 1, i - 1))

\* the characters a Text token cannot hold, the complement of [^\\{}\s%]:
\* whitespace, backslash (92), the braces (123, 125) and % (37)
NonTextChars == Whitespace \cup {92, 123, 125, 37}

\* the characters the bounded inputs are written in: a, newline, U+3000
\* (the ideographic space, a White_Space character of three bytes), the
\* braces, the backslash, % and /
Alphabet == {97, 10, 12288, 123, 125, 92, 37, 47}

\* first index j >= i with input[j] outside class (Len + 1 when none):
\* the end of the maximal run a `+` or `*` repetition over class matches
RECURSIVE RunEnd(_, _, _)
RunEnd(input, i, class) ==
    IF i <= Len(input) /\ input[i] \in class
    THEN RunEnd(input, i + 1, class) ELSE i

\* the same for a negated class [^...]: first index j >= i with input[j]
\* in excluded
RECURSIVE RunEndNot(_, _, _)
RunEndNot(input, i, excluded) ==
    IF i <= Len(input) /\ input[i] \notin excluded
    THEN RunEndNot(input, i + 1, excluded) ELSE i

Slice(input, i, j) == SubSeq(input, i, j - 1)

\* #[error]: a backslash (the one character that starts no token when no
\* letter follows it) gives an Error token spanning that backslash
ErrorToken(input, i) == <<Error, Offset(input, i), Offset(input, i + 1)>>

\* Token::lexer(input) drained by lex(): spanned tokens from index i on;
\* spans are 0-based byte offsets [start, end).  Where "//" starts a token
\* both CppComment and Text match; CppComment runs to the end of the line,
\* never shorter than Text, and wins (a "/" inside a Text run stays text).
\* 37 is %, 47 is /, 10 is \n, 123 and 125 are the braces, 92 is backslash.
RECURSIVE LexFrom(_, _)
LexFrom(input, i) ==
    IF i > Len(input) THEN <<>>
    ELSE LET c == input[i] IN
      CASE c = 37 ->
             LexFrom(input, RunEndNot(input, i + 1, {10}))
        [] c = 47 /\ i < Len(input) /\ input[i + 1] = 47 ->
             LexFrom(input, RunEndNot(input, i + 2, {10}))
        [] c \in Whitespace ->
             LexFrom(input, RunEnd(input, i, Whitespace))
        [] c = 123 ->
             <<<<LBrace, Offset(input, i), Offset(input, i + 1)>>>>
             \o LexFrom(input, i + 1)
        [] c = 125 ->
             <<<<RBrace, Offset(input, i), Offset(input, i + 1)>>>>
             \o LexFrom(input, i + 1)
        [] c = 92 ->
             LET j == RunEnd(input, i + 1, Letters) IN
             IF j > i + 1
             THEN <<<<Command(Slice(input, i + 1, j)),
                    Offset(input, i), Offset(input, j)>>>>
                  \o LexFrom(input, j)
             ELSE <<ErrorToken(input, i)>> \o LexFrom(input, i + 1)
        [] OTHER ->
             LET j == RunEndNot(input, i, NonTextChars) IN
             <<<<TokText(Slice(input, i, j)), Offset(input, i), Offset(input, j)>>>>
             \o LexFrom(input, j)

lex(input) == LexFrom(input, 1)

(* ----------------------------- parser.rs ------------------------------- *)
Ok(node, pos) == [ok |-> TRUE, node |-> node, pos |-> pos]

\* Err(format!(...)): the message kind and the position it is formatted with
Err(kind, pos) == [ok |-> FALSE, err |-> kind, pos |-> pos]

RECURSIVE parse_sequence_loop(_, _, _)
RECURSIVE parse_node(_, _)
RECURSIVE parse_group(_, _)

parse_sequence_loop(tokens, pos, children) ==
    IF pos < Len(tokens) /\ tokens[pos + 1] # RBrace
    THEN LET r == parse_node(tokens, pos) IN
         IF r.ok THEN parse_sequence_loop(tokens, r.pos, Append(children, r.node))
         ELSE r
    ELSE Ok(Seq_(children), pos)

parse_sequence(tokens, pos) == parse_sequence_loop(tokens, pos, <<>>)

\* mutant of parse_node: a Command never takes the group after it
parse_node_NoArgument(tokens, pos) ==
    LET tok == tokens[pos + 1] IN
    CASE tok.type = "Text" -> Ok(Text(tok.s), pos + 1)
      [] tok.type = "Command" -> Ok(Macro(tok.name, <<>>), pos + 1)
      [] tok.type = "LBrace" -> parse_group(tokens, pos)
      [] OTHER -> Err("Unexpected token", pos)

\* mutant of parse_node: an unexpected token is passed over as empty text
parse_node_Lenient(tokens, pos) ==
    LET tok == tokens[pos + 1] IN
    CASE tok.type = "Text" -> Ok(Text(tok.s), pos + 1)
      [] tok.type = "Command" ->
            LET cur == pos + 1 IN
            IF cur < Len(tokens) /\ tokens[cur + 1] = LBrace
            THEN LET r == parse_group(tokens, cur) IN
                 IF r.ok THEN Ok(Macro(tok.name, <<r.node>>), r.pos) ELSE r
            ELSE Ok(Macro(tok.name, <<>>), cur)
      [] tok.type = "LBrace" -> parse_group(tokens, pos)
      [] OTHER -> Ok(Text(<<>>), pos + 1)

parse_node(tokens, pos) ==
    LET tok == tokens[pos + 1] IN
    CASE tok.type = "Text" -> Ok(Text(tok.s), pos + 1)
      [] tok.type = "Command" ->
            LET cur == pos + 1 IN
            IF cur < Len(tokens) /\ tokens[cur + 1] = LBrace
            THEN LET r == parse_group(tokens, cur) IN
                 IF r.ok THEN Ok(Macro(tok.name, <<r.node>>), r.pos) ELSE r
            ELSE Ok(Macro(tok.name, <<>>), cur)
      [] tok.type = "LBrace" -> parse_group(tokens, pos)
      [] OTHER -> Err("Unexpected token", pos)

\* mutant of parse_group: the end of input closes an open group
parse_group_Truncating(tokens, pos) ==
    IF tokens[pos + 1] # LBrace THEN Err("Expected '{'", pos)
    ELSE LET r == parse_sequence(tokens, pos + 1) IN
         IF ~r.ok THEN r
         ELSE IF r.pos < Len(tokens) /\ tokens[r.pos + 1] = RBrace
         THEN Ok(r.node, r.pos + 1)
         ELSE Ok(r.node, r.pos)

parse_group(tokens, pos) ==
    IF tokens[pos + 1] # LBrace THEN Err("Expected '{'", pos)
    ELSE LET r == parse_sequence(tokens, pos + 1) IN
         IF ~r.ok THEN r
         ELSE IF r.pos < Len(tokens) /\ tokens[r.pos + 1] = RBrace
         THEN Ok(r.node, r.pos + 1)
         ELSE Err("Unclosed '{'", pos)

\* .map(|(t, _, _)| t)
Kinds(spanned) == [i \in 1..Len(spanned) |-> spanned[i][1]]

parse(input) ==
    LET tokens == Kinds(lex(input))
        r == parse_sequence(tokens, 0)
    IN  IF ~r.ok THEN r
        ELSE IF r.pos # Len(tokens)
        THEN Err("Unexpected tokens remaining", r.pos)
        ELSE Ok(r.node, r.pos)

(* ----------------------------- expand.rs ------------------------------- *)
\* "textbf"
textbf == <<116, 101, 120, 116, 98, 102>>

\* "emph"
emph == <<101, 109, 112, 104>>

RECURSIVE Join(_, _)
Join(strs, sep) ==
    IF strs = <<>> THEN <<>>
    ELSE IF Len(strs) = 1 THEN strs[1]
    ELSE strs[1] \o sep \o Join(Tail(strs), sep)

RECURSIVE collect_plain_text(_)
collect_plain_text(node) ==
    CASE node.kind \in {"Text", "StyledText"} -> node.s
      [] node.kind = "Seq" ->
            Join([i \in 1..Len(node.children) |->
                      collect_plain_text(node.children[i])], <<32>>)
      [] OTHER -> <<>>

\* mutant of Splice: nested Seqs are kept instead of spliced
Splice_NoFlatten(nodes) == nodes

RECURSIVE Splice(_)
Splice(nodes) ==
    IF nodes = <<>> THEN <<>>
    ELSE (IF nodes[1].kind = "Seq" THEN nodes[1].children ELSE <<nodes[1]>>)
         \o Splice(Tail(nodes))

RECURSIVE expand_macros(_)
expand_macros(ast) ==
    CASE ast.kind = "Seq" ->
            Seq_(Splice([i \in 1..Len(ast.children) |->
                             expand_macros(ast.children[i])]))
      [] ast.kind = "Macro" ->
            LET expanded_args == [i \in 1..Len(ast.args) |->
                                      expand_macros(ast.args[i])]
            IN  IF ast.name = textbf /\ Len(expanded_args) = 1
                THEN StyledText(collect_plain_text(expanded_args[1]), "Bold")
                ELSE IF ast.name = emph /\ Len(expanded_args) = 1
                THEN StyledText(collect_plain_text(expanded_args[1]), "Italic")
                ELSE Macro(ast.name, Splice(expanded_args))
      [] ast.kind = "Text" -> Text(ast.s)
      [] ast.kind = "StyledText" -> StyledText(ast.s, ast.style)

(* ----------------------------- layout.rs ------------------------------- *)
StyledRun(text, style) == [text |-> text, style |-> style]

Run(run) == [kind |-> "Run", run |-> run]

Glue(width) == [kind |-> "Glue", width |-> width]

HBox(items, width) == [items |-> items, width |-> width]

Line(boxes, width) == [boxes |-> boxes, width |-> width]

Page(lns) == [lines |-> lns]

\* the fixed vertical budget in `800.0 / line_height`
PageBudget == 800

\* a usize below usize::MAX
usize(n) == [saturated |-> FALSE, n |-> n]

\* usize::MAX (18446744073709551615 on a 64-bit target), the value the
\* saturating cast `as usize` gives +infinity; it is above the integers of
\* the model and above the length of any Vec, so it is kept as a value of
\* its own and only compared, never counted up to
usize_MAX == [saturated |-> TRUE]

\* len <= m, for a length len and a usize m
AtMost(len, m) == m.saturated \/ len <= m.n

\* str::split_whitespace: the maximal whitespace-free runs, in order
RECURSIVE split_whitespace(_)
split_whitespace(s) ==
    LET i == RunEnd(s, 1, Whitespace) IN
    IF i > Len(s) THEN <<>>
    ELSE LET j == RunEndNot(s, i, Whitespace) IN
         <<Slice(s, i, j)>> \o split_whitespace(SubSeq(s, j, Len(s)))

glue(space_w) == HBox(<<Glue(space_w)>>, space_w)

\* the loop over the words of one Text / StyledText
RECURSIVE WordBoxes(_, _, _, _, _)
WordBoxes(words, j, style, char_w, space_w) ==
    IF j > Len(words) THEN <<>>
    ELSE (IF j > 1 THEN <<glue(space_w)>> ELSE <<>>)
         \o <<HBox(<<Run(StyledRun(words[j], style))>>, ByteLen(words[j]) * char_w)>>
         \o WordBoxes(words, j + 1, style, char_w, space_w)

RECURSIVE flatten_ast(_, _, _)

RECURSIVE SiblingBoxes(_, _, _, _)
\* the loop over the children of a Seq or the args of a Macro
SiblingBoxes(nodes, i, char_w, space_w) ==
    IF i > Len(nodes) THEN <<>>
    ELSE (IF i > 1 THEN <<glue(space_w)>> ELSE <<>>)
         \o flatten_ast(nodes[i], char_w, space_w)
         \o SiblingBoxes(nodes, i + 1, char_w, space_w)

\* the boxes flatten_ast pushes onto hboxes
flatten_ast(ast, char_w, space_w) ==
    CASE ast.kind = "Seq" -> SiblingBoxes(ast.children, 1, char_w, space_w)
      [] ast.kind = "Text" ->
            WordBoxes(split_whitespace(ast.s), 1, "Normal", char_w, space_w)
      [] ast.kind = "StyledText" ->
            WordBoxes(split_whitespace(ast.s), 1, ast.style, char_w, space_w)
      [] ast.kind = "Macro" -> SiblingBoxes(ast.args, 1, char_w, space_w)

\* (800.0 / line_height).floor() as usize: the quotient is +infinity for
\* line_height = 0.0 and negative for a negative one, the cast saturates
max_lines(line_h) ==
    IF line_h = 0 THEN usize_MAX
    ELSE IF line_h < 0 THEN usize(0)
    ELSE usize(PageBudget \div line_h)

\* mutant of chunks: as chunks_exact, a last chunk that is not full is dropped
RECURSIVE chunks_Exact(_, _)
chunks_Exact(lns, m) ==
    IF m.saturated \/ Len(lns) < m.n THEN <<>>
    ELSE <<Page(SubSeq(lns, 1, m.n))>>
         \o chunks_Exact(SubSeq(lns, m.n + 1, Len(lns)), m)

\* lines.chunks(m) for m >= 1, one Page per chunk
RECURSIVE chunks(_, _)
chunks(lns, m) ==
    IF lns = <<>> THEN <<>>
    ELSE IF AtMost(Len(lns), m) THEN <<Page(lns)>>
    ELSE <<Page(SubSeq(lns, 1, m.n))>>
         \o chunks(SubSeq(lns, m.n + 1, Len(lns)), m)

(* ------------------- bounded input trees for expand -------------------- *)
\* "cmd", a command that is no styling macro
cmd == <<99, 109, 100>>

MacroNames == {textbf, emph, cmd}

\* Text("a") and StyledText("b", Italic)
ExpandLeaves == {Text(<<97>>), StyledText(<<98>>, "Italic")}

NodesOver(forests, leaves, names) ==
    {Seq_(f) : f \in forests}
    \cup {Macro(nm, f) : nm \in names, f \in forests}
    \cup (IF <<>> \in forests THEN leaves ELSE {})

RECURSIVE Forests(_, _, _)
Forests(n, leaves, names) ==
    IF n = 0 THEN {<<>>}
    ELSE UNION {{<<t>> \o f : t \in NodesOver(Forests(k - 1, leaves, names), leaves, names),
                              f \in Forests(n - k, leaves, names)} : k \in 1..n}

TreesUpTo(n, leaves, names) ==
    UNION {NodesOver(Forests(k - 1, leaves, names), leaves, names) : k \in 1..n}

ExpandTrees == TreesUpTo(MaxNodes, ExpandLeaves, MacroNames)

NoNode == [kind |-> "None"]

\* Text("a"), Text("aa a"), an empty string, a string of a blank and a
\* vertical tab, and the styled words U+00E9 (one character, two bytes)
\* and b with U+3000 between them
LayoutLeaves ==
    {Text(<<97>>), Text(<<97, 97, 32, 97>>), StyledText(<<>>, "Bold"),
     StyledText(<<32, 11>>, "Italic"), StyledText(<<233, 12288, 98>>, "Bold")}

LayoutTrees == TreesUpTo(MaxLayoutNodes, LayoutLeaves, {cmd})

\* metrics are non-negative numbers; 267, 400 and 800 give pages of 2, 2
\* and 1 lines, 801 is the first height the budget of 800 holds no line of
LineWidths == 0..MaxLineWidth

CharWidths == 0..MaxCharWidth

SpaceWidths == 0..MaxSpaceWidth

LineHeights == {0, 267, 400, 800, 801}

NoResult == [ok |-> FALSE, err |-> "None", pos |-> 0]

\* the sequences over S of length n
SeqsOfLen(S, n) == [1..n -> S]

\* the source lengths the inputs are drawn with
SourceLens == 0..MaxSrcLen

(* ------------------------- expander state machine ---------------------- *)
InitExpand ==
    /\ pc = "expand"
    /\ tree \in ExpandTrees
    /\ expanded = NoNode
    /\ reexpanded = NoNode
    /\ src = <<>> /\ toks = <<>> /\ result = NoResult
    /\ line_width = 0 /\ line_height = 0 /\ char_width = 0 /\ space_width = 0
    /\ hboxes = <<>> /\ ix = 0 /\ curr = <<>> /\ w = 0 /\ lines = <<>> /\ pages = <<>>

Expand ==
    /\ pc = "expand"
    /\ expanded' = expand_macros(tree)
    /\ pc' = "reexpand"
    /\ UNCHANGED <<tree, reexpanded, psVars, params, loVars>>

ReExpand ==
    /\ pc = "reexpand"
    /\ reexpanded' = expand_macros(expanded)
    /\ pc' = "expanded"
    /\ UNCHANGED <<tree, expanded, psVars, params, loVars>>

NextExpand == Expand \/ ReExpand

SpecExpand == InitExpand /\ [][NextExpand]_vars

(* --------------------- lexer / parser state machine -------------------- *)
InitParse ==
    /\ pc = "lex"
    /\ \E n \in SourceLens : src \in SeqsOfLen(Alphabet, n)
    /\ toks = <<>>
    /\ result = NoResult
    /\ tree = NoNode /\ expanded = NoNode /\ reexpanded = NoNode
    /\ line_width = 0 /\ line_height = 0 /\ char_width = 0 /\ space_width = 0
    /\ hboxes = <<>> /\ ix = 0 /\ curr = <<>> /\ w = 0 /\ lines = <<>> /\ pages = <<>>

Lex ==
    /\ pc = "lex"
    /\ toks' = lex(src)
    /\ pc' = "parse"
    /\ UNCHANGED <<src, result, exVars, params, loVars>>

Parse ==
    /\ pc = "parse"
    /\ result' = parse(src)
    /\ tree' = IF result'.ok THEN result'.node ELSE NoNode
    /\ pc' = "parsed"
    /\ UNCHANGED <<src, toks, expanded, reexpanded, params, loVars>>

NextParse == Lex \/ Parse

SpecParse == InitParse /\ [][NextParse]_vars

(* -------------------------- layout state machine ----------------------- *)
\* compile() hands layout the expanded tree; layout starts with empty
\* hboxes, lines and curr and w = 0.0
InitLayout ==
    /\ pc = "flatten"
    /\ tree \in LayoutTrees
    /\ expanded = expand_macros(tree)
    /\ reexpanded = NoNode
    /\ line_width \in LineWidths
    /\ line_height \in LineHeights
    /\ char_width \in CharWidths
    /\ space_width \in SpaceWidths
    /\ hboxes = <<>> /\ ix = 0 /\ curr = <<>> /\ w = 0 /\ lines = <<>> /\ pages = <<>>
    /\ src = <<>> /\ toks = <<>> /\ result = NoResult

\* 1) flatten the tree into hboxes
Flatten ==
    /\ pc = "flatten"
    /\ hboxes' = flatten_ast(expanded, char_width, space_width)
    /\ pc' = "break"
    /\ UNCHANGED <<exVars, psVars, params, ix, curr, w, lines, pages>>

\* mutant of BreakStep: the line is closed already when the box fills it
\* exactly (>= for >)
BreakStep_BreakOnEqual ==
    /\ pc = "break"
    /\ ix < Len(hboxes)
    /\ LET hb == hboxes[ix + 1] IN
       IF w + hb.width >= line_width /\ curr # <<>>
       THEN /\ lines' = Append(lines, Line(curr, w))
            /\ curr' = <<hb>>
            /\ w' = 0 + hb.width
       ELSE /\ lines' = lines
            /\ curr' = Append(curr, hb)
            /\ w' = w + hb.width
    /\ ix' = ix + 1
    /\ UNCHANGED <<pc, exVars, psVars, params, hboxes, pages>>

\* 2) one iteration of `for hb in hboxes`
BreakStep ==
    /\ pc = "break"
    /\ ix < Len(hboxes)
    /\ LET hb == hboxes[ix + 1] IN
       IF w + hb.width > line_width /\ curr # <<>>
       THEN /\ lines' = Append(lines, Line(curr, w))
            /\ curr' = <<hb>>
            /\ w' = 0 + hb.width
       ELSE /\ lines' = lines
            /\ curr' = Append(curr, hb)
            /\ w' = w + hb.width
    /\ ix' = ix + 1
    /\ UNCHANGED <<pc, exVars, psVars, params, hboxes, pages>>

\* mutant of CloseLine: the line still open when the boxes run out is not pushed
CloseLine_DropLast ==
    /\ pc = "break"
    /\ ix = Len(hboxes)
    /\ lines' = lines
    /\ pc' = "paginate"
    /\ UNCHANGED <<exVars, psVars, params, hboxes, ix, curr, w, pages>>

\* the loop is over: push the last line when it holds a box
CloseLine ==
    /\ pc = "break"
    /\ ix = Len(hboxes)
    /\ lines' = IF curr # <<>> THEN Append(lines, Line(curr, w)) ELSE lines
    /\ pc' = "paginate"
    /\ UNCHANGED <<exVars, psVars, params, hboxes, ix, curr, w, pages>>

\* 3) lines.chunks(max_lines); chunks panics on a chunk size of 0
Paginate ==
    /\ pc = "paginate"
    /\ IF max_lines(line_height) = usize(0)
       THEN pc' = "panicked" /\ pages' = pages
       ELSE pc' = "done" /\ pages' = chunks(lines, max_lines(line_height))
    /\ UNCHANGED <<exVars, psVars, params, hboxes, ix, curr, w, lines>>

NextLayout == Flatten \/ BreakStep \/ CloseLine \/ Paginate

SpecLayout == InitLayout /\ [][NextLayout]_vars

(* ============================ properties =============================== *)
Kids(node) ==
    CASE node.kind = "Seq" -> node.children
      [] node.kind = "Macro" -> node.args
      [] OTHER -> <<>>

\* the node and all its descendants
RECURSIVE Nodes(_)
Nodes(node) ==
    {node} \cup UNION {Nodes(Kids(node)[i]) : i \in 1..Len(Kids(node))}

RECURSIVE Concat(_)
Concat(seqs) == IF seqs = <<>> THEN <<>> ELSE seqs[1] \o Concat(Tail(seqs))

StylingMacro1(node) ==
    node.kind = "Macro" /\ node.name \in {textbf, emph} /\ Len(node.args) = 1

SeqInside(node) == \E i \in 1..Len(Kids(node)) : Kids(node)[i].kind = "Seq"

Expanded == pc \in {"reexpand", "expanded"}

\* C1: expanding an expanded tree changes nothing:
\* expand_macros(expand_macros(t)) = expand_macros(t) for every tree t.
C1_Idempotent == pc = "expanded" => reexpanded = expanded

\* C2: no Macro named textbf or emph with exactly one argument occurs
\* anywhere in expand_macros(t).
C2_NoStylingMacroSurvives ==
    Expanded => \A n \in Nodes(expanded) : ~StylingMacro1(n)

\* the tree read depth-first with every Seq made transparent: leaves as they
\* are, a Macro as its name, its arguments and a closing mark
RECURSIVE Skeleton(_)
Skeleton(node) ==
    CASE node.kind = "Seq" ->
            Concat([i \in 1..Len(node.children) |-> Skeleton(node.children[i])])
      [] node.kind = "Macro" ->
            <<[open |-> node.name]>>
            \o Concat([i \in 1..Len(node.args) |-> Skeleton(node.args[i])])
            \o <<[close |-> node.name]>>
      [] OTHER -> <<node>>

\* C4: in expand_macros(t) no Seq has a Seq as a direct child and no Macro
\* has a Seq as a direct argument; the elements of nested Seqs are spliced
\* into the parent in their original order (where no styling macro is
\* collapsed, the tree read depth-first through its Seqs is unchanged).
C4_Flattened ==
    Expanded =>
        /\ \A n \in Nodes(expanded) : ~SeqInside(n)
        /\ (\A n \in Nodes(tree) : ~StylingMacro1(n))
               => Skeleton(expanded) = Skeleton(tree)

\* a Seq nested in a Seq and a Seq argument of a Macro, both with elements,
\* have been expanded
C4_Witness ==
    /\ Expanded
    /\ \E n \in Nodes(tree) : n.kind = "Seq" /\ SeqInside(n)
    /\ \E n \in Nodes(tree) : n.kind = "Macro" /\ SeqInside(n) /\ Len(n.args) = 2
    /\ Len(Skeleton(tree)) >= 4

\* the strings of the Text / StyledText leaves of a node, depth-first
\* through its Seqs; a Macro gives none
RECURSIVE TextLeafStrings(_)
TextLeafStrings(node) ==
    CASE node.kind \in {"Text", "StyledText"} -> <<node.s>>
      [] node.kind = "Seq" ->
            Concat([i \in 1..Len(node.children) |->
                        TextLeafStrings(node.children[i])])
      [] OTHER -> <<>>

\* C11: the string of a collapsed textbf / emph macro is the Text and
\* StyledText leaf strings of its expanded argument, depth-first, joined
\* with exactly one space between successive leaves; a child that is not
\* text adds neither characters nor spaces.
C11_CollapsedString ==
    (Expanded /\ StylingMacro1(tree)) =>
        /\ expanded.kind = "StyledText"
        /\ expanded.style = (IF tree.name = textbf THEN "Bold" ELSE "Italic")
        /\ expanded.s =
               Join(TextLeafStrings(expand_macros(tree.args[1])), <<32>>)

(* ------------------------------ parser --------------------------------- *)
Parsed == pc = "parsed"

TokenStream == Kinds(toks)

Count(ts, type) == Cardinality({i \in 1..Len(ts) : ts[i].type = type})

\* LeftBrace minus RightBrace tokens among the first n tokens
BraceDepth(ts, n) ==
    Count(SubSeq(ts, 1, n), "LBrace") - Count(SubSeq(ts, 1, n), "RBrace")

\* some prefix holds more RightBrace than LeftBrace tokens
StrayRBrace(ts) == \E n \in 1..Len(ts) : BraceDepth(ts, n) < 0

Balanced(ts) == ~StrayRBrace(ts) /\ BraceDepth(ts, Len(ts)) = 0

\* C5: on a token stream with no error token, parse succeeds exactly when
\* the braces are balanced, fails with "Unexpected tokens remaining"
\* exactly when some prefix has more RightBrace than LeftBrace tokens, and
\* otherwise fails with the unclosed-group error exactly when a LeftBrace
\* is left without its RightBrace at the end of input.
C5_BraceErrors ==
    (Parsed /\ Count(TokenStream, "Error") = 0) =>
        LET ts == TokenStream IN
        /\ result.ok <=> Balanced(ts)
        /\ (~result.ok /\ result.err = "Unexpected tokens remaining")
               <=> StrayRBrace(ts)
        /\ (~result.ok /\ result.err = "Unclosed '{'")
               <=> (~StrayRBrace(ts) /\ BraceDepth(ts, Len(ts)) > 0)

\* a group closed inside a group that is never closed
C5_Witness ==
    /\ Parsed
    /\ Count(TokenStream, "Error") = 0
    /\ Count(TokenStream, "LBrace") >= 2
    /\ Count(TokenStream, "RBrace") >= 1
    /\ ~result.ok /\ result.err = "Unclosed '{'"

\* the token stream a tree is written as: a Seq inside a tree is a brace
\* group, a Macro is its Command followed by its arguments
RECURSIVE Unparse(_)
Unparse(node) ==
    CASE node.kind = "Text" -> <<TokText(node.s)>>
      [] node.kind = "Seq" ->
            <<LBrace>>
            \o Concat([i \in 1..Len(node.children) |-> Unparse(node.children[i])])
            \o <<RBrace>>
      [] node.kind = "Macro" ->
            <<Command(node.name)>>
            \o Concat([i \in 1..Len(node.args) |-> Unparse(node.args[i])])
      [] OTHER -> <<Error>>

\* the number of Seq nodes on the longest path from the node down
RECURSIVE SeqDepth(_)
SeqDepth(node) ==
    LET below == {SeqDepth(Kids(node)[i]) : i \in 1..Len(Kids(node))} \cup {0}
        deepest == CHOOSE d \in below : \A e \in below : e <= d
    IN  (IF node.kind = "Seq" THEN 1 ELSE 0) + deepest

MaxBraceDepth(ts) ==
    LET ds == {BraceDepth(ts, n) : n \in 0..Len(ts)}
    IN  CHOOSE d \in ds : \A e \in ds : e <= d

\* Command tokens with a LeftBrace right after them
CommandsWithGroup(ts) ==
    {i \in 1..Len(ts) : ts[i].type = "Command" /\ i < Len(ts) /\ ts[i + 1] = LBrace}

\* the argument counts of the Macro nodes, depth-first
RECURSIVE MacroArities(_)
MacroArities(node) ==
    (IF node.kind = "Macro" THEN <<Len(node.args)>> ELSE <<>>)
    \o Concat([i \in 1..Len(Kids(node)) |-> MacroArities(Kids(node)[i])])

\* for the Command tokens from index i on, in order: 1 when a LeftBrace
\* follows the command, else 0
RECURSIVE CommandArities(_, _)
CommandArities(ts, i) ==
    IF i > Len(ts) THEN <<>>
    ELSE (IF ts[i].type = "Command"
          THEN <<IF i \in CommandsWithGroup(ts) THEN 1 ELSE 0>> ELSE <<>>)
         \o CommandArities(ts, i + 1)

NodesOfKind(node, kind) == {n \in Nodes(node) : n.kind = kind}

\* C9: a successful parse gives a top-level Seq; every brace group is its
\* own nested Seq (Seq nesting equals brace nesting, nothing is flattened);
\* a Command gives a Macro with no argument when no LeftBrace follows it
\* and otherwise with exactly one argument, the Seq of the group right
\* after it; no StyledText and no Macro with more than one argument is made.
C9_TreeShape ==
    (Parsed /\ result.ok) =>
        LET ts == TokenStream IN
        /\ tree.kind = "Seq"
        /\ <<LBrace>> \o ts \o <<RBrace>> = Unparse(tree)
        /\ SeqDepth(tree) = 1 + MaxBraceDepth(ts)
        /\ \A m \in NodesOfKind(tree, "Macro") :
               /\ Len(m.args) <= 1
               /\ \A i \in 1..Len(m.args) : m.args[i].kind = "Seq"
        /\ MacroArities(tree) = CommandArities(ts, 1)
        /\ NodesOfKind(tree, "StyledText") = {}

\* a command with a group, a command without, and a group in a group
C9_Witness ==
    /\ Parsed /\ result.ok
    /\ \E m \in NodesOfKind(tree, "Macro") : Len(m.args) = 1
    /\ \E m \in NodesOfKind(tree, "Macro") : Len(m.args) = 0
    /\ SeqDepth(tree) >= 2

\* from position p (1-based) of the source on, the position after the
\* whitespace and the comments (% or // to the end of the line) found there
RECURSIVE SkipEnd(_)
SkipEnd(p) ==
    IF p > Len(src) THEN p
    ELSE IF src[p] \in Whitespace THEN SkipEnd(p + 1)
    ELSE IF src[p] = 37 \/ (src[p] = 47 /\ p < Len(src) /\ src[p + 1] = 47)
    THEN SkipEnd(RunEndNot(src, p, {10}))
    ELSE p

\* the bytes of the first n characters of the source
RECURSIVE BytesOfPrefix(_)
BytesOfPrefix(n) ==
    IF n = 0 THEN 0
    ELSE BytesOfPrefix(n - 1)
         + (IF src[n] <= 127 THEN 1 ELSE IF src[n] <= 2047 THEN 2
            ELSE IF src[n] <= 65535 THEN 3 ELSE 4)

\* the byte offset each character of the source starts at, and the end
\* of the source as position Len + 1
ByteStarts == [p \in 1..(Len(src) + 1) |-> BytesOfPrefix(p - 1)]

\* the positions that start at byte offset b, given the byte starts bs: one
\* position when b is a character boundary, none when it is not
AtByte(bs, b) == {p \in DOMAIN bs : bs[p] = b}

PosOf(bs, b) == CHOOSE p \in AtByte(bs, b) : TRUE

\* the span of token i lies on character boundaries
OnBoundaries(bs, i) == AtByte(bs, toks[i][2]) # {} /\ AtByte(bs, toks[i][3]) # {}

\* the characters token i spans
TokenSlice(bs, i) == SubSeq(src, PosOf(bs, toks[i][2]), PosOf(bs, toks[i][3]) - 1)

\* token i is what its span of the source holds
TokenMatchesSlice(bs, i) ==
    LET tok == toks[i][1]
        sl == TokenSlice(bs, i)
        after == PosOf(bs, toks[i][3])
    IN  CASE tok.type = "Text" ->
               /\ sl # <<>> /\ tok.s = sl
               /\ \A q \in 1..Len(sl) : sl[q] \notin NonTextChars
          [] tok.type = "Command" ->
               /\ Len(sl) >= 2 /\ sl[1] = 92 /\ tok.name = Tail(sl)
               /\ \A q \in 2..Len(sl) : sl[q] \in Letters
          [] tok.type = "LBrace" -> sl = <<123>>
          [] tok.type = "RBrace" -> sl = <<125>>
          [] tok.type = "Error" ->
               /\ sl = <<92>>
               /\ after <= Len(src) => src[after] \notin Letters

FirstError(ts) == CHOOSE i \in 1..Len(ts) : ts[i] = Error /\ \A j \in 1..(i - 1) : ts[j] # Error

\* C10: the lexer does not stop at an unrecognized character: it emits an
\* error token for it and lexes on, so the source is cut into its tokens,
\* each spanning (in byte offsets) the characters it is made of, with only
\* whitespace and comments between them, up to its end; a token stream
\* with an error token never parses to a tree, and when the parser reaches
\* the error token it fails with the unexpected-token error at that token's
\* position.
C10_ErrorTokens ==
    /\ pc \in {"parse", "parsed"} =>
          LET bs == ByteStarts IN
          /\ \A i \in 1..Len(toks) :
                 /\ OnBoundaries(bs, i)
                 /\ TokenMatchesSlice(bs, i)
                 /\ SkipEnd(IF i = 1 THEN 1 ELSE PosOf(bs, toks[i - 1][3]))
                        = PosOf(bs, toks[i][2])
          /\ SkipEnd(IF toks = <<>> THEN 1 ELSE PosOf(bs, toks[Len(toks)][3]))
                 = Len(src) + 1
    /\ (Parsed /\ Count(TokenStream, "Error") > 0) =>
          LET ts == TokenStream
              e == FirstError(ts)
          IN  /\ ~result.ok
              /\ result.err \in {"Unexpected token", "Unexpected tokens remaining"}
              /\ result.err = "Unexpected token" => result.pos = e - 1
              /\ result.err = "Unexpected tokens remaining"
                     <=> StrayRBrace(SubSeq(ts, 1, e - 1))

\* an error token inside an open group, with text lexed after it, behind a
\* character of several bytes: its byte offset is not its character offset
C10_Witness ==
    /\ Parsed
    /\ \E i \in 2..(Len(toks) - 1) :
           /\ TokenStream[i] = Error
           /\ TokenStream[i - 1] = LBrace
           /\ TokenStream[i + 1].type = "Text"
           /\ toks[i][2] > PosOf(ByteStarts, toks[i][2]) - 1
    /\ ~result.ok /\ result.err = "Unexpected token"

(* ------------------------------ layout --------------------------------- *)
RECURSIVE SumWidths(_)
SumWidths(boxes) ==
    IF boxes = <<>> THEN 0 ELSE boxes[1].width + SumWidths(Tail(boxes))

\* C3: layout is total: whatever the tree and the four metrics, it returns
\* pages and never aborts.
C3_Total == pc # "panicked"

\* C6: a box is appended to the current non-empty line exactly when the
\* accumulated width plus the box's width is at most line_width (equality
\* keeps it on the line); otherwise the current line is closed and the box
\* starts a new line.  So every emitted line of two or more boxes is at
\* most line_width wide.
C6_GreedyBreak ==
    [][ /\ (pc = "break" /\ ix < Len(hboxes) /\ curr # <<>>) =>
              LET hb == hboxes[ix + 1] IN
              IF SumWidths(curr) + hb.width <= line_width
              THEN lines' = lines /\ curr' = Append(curr, hb)
              ELSE /\ lines' = Append(lines, [boxes |-> curr, width |-> w])
                   /\ curr' = <<hb>>
        /\ \A i \in 1..Len(lines') :
              Len(lines'[i].boxes) >= 2 => SumWidths(lines'[i].boxes) <= line_width
      ]_vars

\* a box of positive width has filled the line to exactly line_width and
\* stayed on it, after an earlier box had to start this line
C6_Witness ==
    /\ pc = "break"
    /\ lines # <<>>
    /\ Len(curr) >= 2
    /\ curr[Len(curr)].width > 0
    /\ SumWidths(curr) = line_width

AllLines == Concat([i \in 1..Len(pages) |-> pages[i].lines])

\* C7: a box wider than line_width is neither split nor dropped: it sits on
\* a line that holds that box and no other, and layout returns normally.
C7_OversizedAlone ==
    (pc \in {"paginate", "done", "panicked"}
     /\ \E i \in 1..Len(hboxes) : hboxes[i].width > line_width)
    => /\ pc # "panicked"
       /\ \A i \in 1..Len(lines) : \A j \in 1..Len(lines[i].boxes) :
              lines[i].boxes[j].width > line_width => Len(lines[i].boxes) = 1
       /\ Concat([i \in 1..Len(lines) |-> lines[i].boxes]) = hboxes
       /\ pc = "done" => AllLines = lines

\* C8: with max_lines = floor(800 / line_height) >= 1 the lines are cut, in
\* order, into pages of exactly max_lines lines, but for the last, which
\* holds between 1 and max_lines lines; no page is empty and no lines give
\* no pages.
C8_PageChunks ==
    LET m == max_lines(line_height) IN
    /\ m # usize(0) => pc # "panicked"
    /\ (pc = "done" /\ m # usize(0)) =>
          /\ AllLines = lines
          /\ \A i \in 1..Len(pages) :
                 /\ Len(pages[i].lines) >= 1
                 /\ AtMost(Len(pages[i].lines), m)
                 /\ i < Len(pages) => m = usize(Len(pages[i].lines))
          /\ lines = <<>> => pages = <<>>

\* three pages or more, the last one not full
C8_Witness ==
    /\ pc = "done"
    /\ Len(pages) >= 3
    /\ max_lines(line_height) # usize(Len(pages[Len(pages)].lines))

(* ----------------------------- flattening ------------------------------ *)
\* positions where a word of s starts and ends: a character outside
\* whitespace next to whitespace or to an end of the string
WordStarts(s) ==
    {p \in 1..Len(s) : s[p] \notin Whitespace /\ (p = 1 \/ s[p - 1] \in Whitespace)}

WordEnds(s) ==
    {p \in 1..Len(s) : s[p] \notin Whitespace /\ (p = Len(s) \/ s[p + 1] \in Whitespace)}

\* the j-th smallest element of a set of numbers
Nth(S, j) == CHOOSE x \in S : Cardinality({y \in S : y < x}) = j - 1

NthWord(s, j) == SubSeq(s, Nth(WordStarts(s), j), Nth(WordEnds(s), j))

GlueBox == [items |-> <<[kind |-> "Glue", width |-> space_width]>>,
            width |-> space_width]

\* the boxes of a node of the tree being laid out: hboxes for the tree itself
BoxesOf(node) ==
    IF node = expanded THEN hboxes
    ELSE flatten_ast(node, char_width, space_width)

Flattened == pc \in {"break", "paginate", "done", "panicked"}

\* C12: a Text or StyledText leaf gives one Run box per whitespace-separated
\* word, in order, non-empty, free of whitespace, in the leaf's style
\* (Normal for Text) and word length (the number of characters of the word)
\* times char_width wide, with one glue box of space_width between
\* successive words and no box for an empty or all-whitespace string; a Seq
\* gives its children's boxes in order with one glue box between each
\* successive pair of children and none before the first or after the last;
\* a Macro gives the boxes Seq(args) gives, whatever its name.
C12_BoxFlattening ==
    Flattened => \A n \in Nodes(expanded) :
        LET boxes == BoxesOf(n) IN
        CASE n.kind \in {"Text", "StyledText"} ->
               LET nw == Cardinality(WordStarts(n.s))
                   style == IF n.kind = "Text" THEN "Normal" ELSE n.style
               IN  /\ Len(boxes) = (IF nw = 0 THEN 0 ELSE 2 * nw - 1)
                   /\ \A j \in 1..nw :
                          LET word == NthWord(n.s, j) IN
                          /\ word # <<>>
                          /\ \A p \in 1..Len(word) : word[p] \notin Whitespace
                          /\ boxes[2 * j - 1] =
                                 [items |-> <<[kind |-> "Run",
                                               run |-> [text |-> word, style |-> style]]>>,
                                  width |-> Len(word) * char_width]
                   /\ \A j \in 1..(nw - 1) : boxes[2 * j] = GlueBox
          [] n.kind \in {"Seq", "Macro"} ->
               boxes = Join([i \in 1..Len(Kids(n)) |-> BoxesOf(Kids(n)[i])],
                            <<GlueBox>>)

(* ------------------------- content preservation ------------------------ *)
\* C13: whenever layout returns, the boxes of all lines of all pages, in
\* output order, are exactly the flattened boxes (none dropped, duplicated
\* or reordered, glue included, also at the end of a line); every line
\* holds at least one box and its width is the sum of its boxes' widths.
C13_ContentPreserved ==
    pc = "done" =>
        /\ Concat([i \in 1..Len(AllLines) |-> AllLines[i].boxes]) = hboxes
        /\ hboxes = flatten_ast(expanded, char_width, space_width)
        /\ \A i \in 1..Len(AllLines) :
               /\ AllLines[i].boxes # <<>>
               /\ AllLines[i].width = SumWidths(AllLines[i].boxes)

\* layout returned two pages or more, with a line of several boxes that
\* ends in a glue box of positive width
C13_Witness ==
    /\ pc = "done"
    /\ Len(pages) >= 2
    /\ \E i \in 1..Len(AllLines) :
           LET bs == AllLines[i].boxes IN
           /\ Len(bs) >= 2
           /\ bs[Len(bs)].items[1].kind = "Glue"
           /\ bs[Len(bs)].width > 0
====
